---- MODULE Spec2Model ----
(***************************************************************************)
(* Model of condor_necropsy/state_graph.py: the job-status tracker of      *)
(* make_state_graph, the timeline sampler group_counts_by_time, the row    *)
(* partitioner calculate_column_partition, the column renderer histogram   *)
(* and the axis merge merge_strings.                                       *)
(*                                                                         *)
(* Arithmetic: the Python code computes with floats (count / max_jobs *    *)
(* height, first_time + n * dt).  The model computes the same quantities   *)
(* exactly, as quotients of integers P / Q with Q > 0.                     *)
(***************************************************************************)
EXTENDS Integers, Naturals, Sequences, FiniteSets, TLC

VARIABLES
    pc,                 \* position inside make_state_graph / the function applied
    job_states,         \* make_state_graph: job key -> status, None when unseen
    job_state_counts,   \* make_state_graph: running Counter status -> count
    counts_over_time,   \* make_state_graph: log of (timestamp, snapshot)
    n_ingested,         \* number of events the loop has consumed
    term,               \* shutil.get_terminal_size(): columns, lines
    sampler_entered,    \* TRUE once the body of group_counts_by_time has run
    groups,             \* histogram: list(group_counts_by_time(...))
    counts,             \* histogram: per-column samples (None for empty window)
    bar_lens,           \* histogram: row heights of every partitioned column
    columns,            \* histogram: the column strings
    graph,              \* the value returned (rows of the rendered text)
    error,              \* the exception that ended the call, None otherwise
    fn_in,              \* input of the pure function under check
    fn_out              \* its result

vars == <<pc, job_states, job_state_counts, counts_over_time, n_ingested, term,
          sampler_entered, groups, counts, bar_lens, columns, graph, error,
          fn_in, fn_out>>

\* Python's None, for the exception slot
None == "None"

\* An optional JobStatus: <<>> is None, <<s>> is the status s
NoStatus == <<>>

Some(s) == <<s>>

StatusOf(opt) == opt[1]

(***************************** bounds **************************************)
MaxEvents == 3      \* events in one log
MaxWidth == 2       \* canvas widths -1 .. MaxWidth
MaxHeight == 2      \* canvas heights 0 .. MaxHeight
MaxCount == 2       \* per-status count of a sample given to the partitioner
MaxTotal == 5       \* max_jobs given to the partitioner
MaxRows == 3        \* canvas height given to the partitioner
MaxLen == 2         \* length of the strings given to merge_strings
MaxAxis == 39       \* largest canvas width of the axis strings given to it
MaxPoints == 4      \* events in one log rendered on a wide canvas
MaxWindows == 3     \* wide canvas widths 1 .. MaxWindows

(************************ JobStatus, symbols *******************************)
UNKNOWN == 0
IDLE == 1
RUNNING == 2
REMOVED == 3
COMPLETED == 4
HELD == 5
SUSPENDED == 6

JobStatus == UNKNOWN .. SUSPENDED

SYMBOLS == <<" ", "I", "R", "X", "C", "H", "S">>

STATUS_TO_SYMBOL == [s \in JobStatus |-> SYMBOLS[s + 1]]

COLORS == <<"black", "yellow", "blue", "magenta", "green", "red", "magenta">>

\* dict(zip(SYMBOLS, COLORS))
SYMBOL_TO_COLOR == [y \in {SYMBOLS[i] : i \in 1 .. Len(SYMBOLS)} |->
                      COLORS[CHOOSE i \in 1 .. Len(SYMBOLS) : SYMBOLS[i] = y]]

JOB_EVENT_STATUS_TRANSITIONS ==
    [t \in {"SUBMIT", "JOB_EVICTED", "JOB_UNSUSPENDED", "JOB_RELEASED",
            "SHADOW_EXCEPTION", "JOB_RECONNECT_FAILED", "JOB_TERMINATED",
            "EXECUTE", "JOB_HELD", "JOB_SUSPENDED", "JOB_ABORTED"} |->
        CASE t = "JOB_TERMINATED" -> COMPLETED
          [] t = "EXECUTE" -> RUNNING
          [] t = "JOB_HELD" -> HELD
          [] t = "JOB_SUSPENDED" -> SUSPENDED
          [] t = "JOB_ABORTED" -> REMOVED
          [] OTHER -> IDLE]

\* Event kinds the log reader can deliver; the last two have no table entry.
EventTypes == DOMAIN JOB_EVENT_STATUS_TRANSITIONS \cup {"IMAGE_SIZE", "FILE_TRANSFER"}

\* The kinds of the logs that are rendered: two with a table entry, one
\* without.
RenderedTypes == {"SUBMIT", "EXECUTE", "IMAGE_SIZE"}

\* (event.cluster, event.proc)
EventKeys == {<<1, 0>>, <<1, 1>>}

\* event.timestamp, seconds
Timestamps == {0, 1, 2}

\* JOB_EVENT_STATUS_TRANSITIONS.get(event.type, None)
NewStatus(type) ==
    IF type \in DOMAIN JOB_EVENT_STATUS_TRANSITIONS
    THEN Some(JOB_EVENT_STATUS_TRANSITIONS[type])
    ELSE NoStatus

(*************************** generic helpers *******************************)
RECURSIVE SumTo(_, _)
\* sum of f[0] .. f[n] for a function over JobStatus
SumTo(f, n) == IF n < 0 THEN 0 ELSE f[n] + SumTo(f, n - 1)

\* collections.Counter(): absent keys read as 0
EmptyCounter == [s \in JobStatus |-> 0]

\* total_counts(counter) for an integer Counter
IntTotal(counter) == SumTo(counter, SUSPENDED)

Last(s) == s[Len(s)]

(***************************** state tracker *******************************)
\* One iteration of the loop "for event in events" of make_state_graph.
StatesAfter(states, event) ==
    LET new_status == NewStatus(event.type)
    IN  IF new_status # NoStatus
        THEN [states EXCEPT ![<<event.cluster, event.proc>>] = new_status]
        ELSE states

IncrementNew(cnt, new_status) == [cnt EXCEPT ![StatusOf(new_status)] = @ + 1]

\* a tracker that takes the job out of its old status twice
DecrementOld_Twice(cnt, old_status) ==
    IF old_status # NoStatus THEN [cnt EXCEPT ![StatusOf(old_status)] = @ - 2] ELSE cnt

DecrementOld(cnt, old_status) ==
    IF old_status # NoStatus THEN [cnt EXCEPT ![StatusOf(old_status)] = @ - 1] ELSE cnt

\* a tracker that files an event without a table entry under UNKNOWN
CountsAfter_UnmappedCounted(states, cnt, event) ==
    LET new_status == NewStatus(event.type)
        old_status == states[<<event.cluster, event.proc>>]
    IN  IF new_status # NoStatus
        THEN DecrementOld(IncrementNew(cnt, new_status), old_status)
        ELSE IncrementNew(cnt, Some(UNKNOWN))

CountsAfter(states, cnt, event) ==
    LET new_status == NewStatus(event.type)
        old_status == states[<<event.cluster, event.proc>>]
    IN  IF new_status # NoStatus
        THEN DecrementOld(IncrementNew(cnt, new_status), old_status)
        ELSE cnt

AppendPoint(log, timestamp, cnt) ==
    Append(log, [timestamp |-> timestamp, counts |-> cnt])

(**************************** timeline sampler *****************************)
SetMin(S) == CHOOSE x \in S : \A y \in S : x <= y

\* counts_over_time[left:right] with Python's 0-based, right-exclusive indices
Slice(s, left, right) == SubSeq(s, left + 1, right)

(* Python's float is the IEEE-754 binary64 format: every operation gives the
   exact result rounded to FloatPrecision significant bits, ties to even.  A
   non-negative float below 2^IntBits is written here in binary fixed point,
   as the sequence of its IntBits integer bits and FracBits fraction bits,
   most significant bit first; the floats of the sampler, which are 0 or at
   least 1 / n_divisions, have all their significant bits in that range. *)
FloatPrecision == 53
IntBits == 4
FracBits == 64

NBits == IntBits + FracBits

RECURSIVE Pow2(_)
Pow2(k) == IF k = 0 THEN 1 ELSE 2 * Pow2(k - 1)

\* float(k) for an integer 0 <= k < 2^IntBits
FloatOfInt(k) ==
    SubSeq([i \in 1 .. NBits |->
                IF i <= IntBits THEN (k \div Pow2(IntBits - i)) % 2 ELSE 0],
           1, NBits)

\* the carry into bit i of a + b: some lower bit j generates a carry and
\* every bit between i and j passes it on
CarryInto(a, b, i) ==
    \E j \in i + 1 .. NBits :
        /\ a[j] + b[j] = 2
        /\ \A k \in i + 1 .. j - 1 : a[k] + b[k] = 1

\* the exact sum a + b (below 2^IntBits)
ExactSum(a, b) ==
    SubSeq([i \in 1 .. NBits |->
                (a[i] + b[i] + (IF CarryInto(a, b, i) THEN 1 ELSE 0)) % 2],
           1, NBits)

RECURSIVE ExactTimes(_, _)
\* the exact product n * x for an integer n >= 0 (below 2^IntBits)
ExactTimes(n, x) ==
    IF n = 0 THEN FloatOfInt(0) ELSE ExactSum(x, ExactTimes(n - 1, x))

\* the exact value bits (+ a non-zero amount below the last bit when sticky)
\* cut after bit last_kept: the bits after it are dropped and one unit in
\* the last place is added when they amount to more than half a unit, or to
\* exactly half with the last kept bit odd (round to nearest, ties to even)
RoundAt(bits, sticky, last_kept) ==
    IF /\ last_kept + 1 <= NBits
       /\ bits[last_kept + 1] = 1
       /\ \/ sticky
          \/ \E i \in last_kept + 2 .. NBits : bits[i] = 1
          \/ bits[last_kept] = 1
    THEN ExactSum(SubSeq(bits, 1, last_kept) \o [i \in 1 .. NBits - last_kept |-> 0],
                  [i \in 1 .. NBits |-> IF i = last_kept THEN 1 ELSE 0])
    ELSE IF last_kept < NBits
    THEN SubSeq(bits, 1, last_kept) \o [i \in 1 .. NBits - last_kept |-> 0]
    ELSE bits

\* the position of the first significant bit (NBits + 1 for the value 0)
FirstOne(bits) == SetMin({i \in 1 .. NBits + 1 : i = NBits + 1 \/ bits[i] = 1})

\* the float nearest to the exact value: FloatPrecision significant bits
RoundToFloat(bits, sticky) ==
    RoundAt(bits, sticky, FirstOne(bits) + FloatPrecision - 1)

RECURSIVE Pow2Mod(_, _)
\* 2^k % d, by squaring
Pow2Mod(k, d) ==
    IF k = 0 THEN 1 % d
    ELSE IF k % 2 = 0 THEN (Pow2Mod(k \div 2, d) * Pow2Mod(k \div 2, d)) % d
    ELSE (2 * Pow2Mod(k - 1, d)) % d

\* (r * 2^k) % d: the remainder left by k steps of the long division r / d
Remainder(r, d, k) == (r * Pow2Mod(k, d)) % d

\* a / d in floats, for integers a >= 0 and d > 0: the quotient's integer
\* bits, its first FracBits fraction bits by long division, rounded
FloatDiv(a, d) ==
    RoundToFloat(SubSeq(FloatOfInt(a \div d), 1, IntBits)
                    \o [i \in 1 .. FracBits |-> (2 * Remainder(a, d, i - 1)) \div d],
                 Remainder(a, d, FracBits) # 0)

\* n * x in floats, for an integer n >= 0
FloatTimes(n, x) == RoundToFloat(ExactTimes(n, x), FALSE)

\* x + y in floats
FloatAdd(x, y) == RoundToFloat(ExactSum(x, y), FALSE)

\* x > y
FloatGreater(x, y) ==
    \E i \in 1 .. NBits : x[i] > y[i] /\ \A j \in 1 .. i - 1 : x[j] = y[j]

\* right_time of window n: dt = (last_time - first_time) / n_divisions,
\* left_time = first_time + (n * dt), right_time = left_time + dt
RightTimeOf(first_time, n, dt) ==
    FloatAdd(FloatAdd(FloatOfInt(first_time), FloatTimes(n, dt)), dt)

RightTime(first_time, last_time, n, n_divisions) ==
    RightTimeOf(first_time, n, FloatDiv(last_time - first_time, n_divisions))

\* the largest n_divisions the sampler is called with
MaxDivisions == IF MaxWidth > MaxWindows THEN MaxWidth ELSE MaxWindows

\* the windows of the time-ordered logs: (first_time, last_time, n, n_divisions)
Windows ==
    {x \in Timestamps \X Timestamps \X (0 .. MaxDivisions - 1) \X (1 .. MaxDivisions) :
        x[1] <= x[2] /\ x[3] < x[4]}

\* the (timestamp, first_time, last_time, n, n_divisions) for which
\* "timestamp > right_time" holds, listed once for all windows
BeyondRightTime ==
    {<<x[1], x[2][1], x[2][2], x[2][3], x[2][4]>> :
        x \in {y \in Timestamps \X Windows :
                 FloatGreater(FloatOfInt(y[1]),
                              RightTime(y[2][1], y[2][2], y[2][3], y[2][4]))}}

\* "if timestamp > right_time" for window n of n_divisions (n_divisions > 0)
AfterRightTime(timestamp, first_time, last_time, n, n_divisions) ==
    <<timestamp, first_time, last_time, n, n_divisions>> \in BeyondRightTime

\* the index the inner loop stops at: the first index beyond the window
\* (break), or the last index of the list
LoopExit(beyond, last_idx) == IF beyond = {} THEN last_idx ELSE SetMin(beyond)

\* The inner for loop: the value of right_idx when the loop is left.  The
\* loop variable keeps the index of the last point visited: the index of the
\* first point beyond the window on break, the last index of the list when
\* the list is exhausted, and its old value when the slice is empty.
ScanRightIdx(cot, left_idx, right_idx, n, n_divisions) ==
    IF left_idx > Len(cot) - 1 THEN right_idx
    ELSE LoopExit({i \in left_idx .. Len(cot) - 1 :
                     AfterRightTime(cot[i + 1].timestamp, cot[1].timestamp,
                                    Last(cot).timestamp, n, n_divisions)},
                  Len(cot) - 1)

RECURSIVE GroupsFrom(_, _, _, _, _)
RECURSIVE WindowAndRest(_, _, _, _, _)
\* "yield counts_over_time[left_idx:right_idx]; left_idx = right_idx" for
\* window n, followed by the windows after it
WindowAndRest(cot, n_divisions, n, left_idx, right_idx) ==
    <<Slice(cot, left_idx, right_idx)>>
        \o GroupsFrom(cot, n_divisions, n + 1, right_idx, right_idx)

\* the windows n, n+1, .. n_divisions-1 yielded by the generator
GroupsFrom(cot, n_divisions, n, left_idx, right_idx) ==
    IF n >= n_divisions THEN <<>>
    ELSE WindowAndRest(cot, n_divisions, n, left_idx,
                       ScanRightIdx(cot, left_idx, right_idx, n, n_divisions))

\* list(group_counts_by_time(counts_over_time, n_divisions)) for a non-empty
\* log and n_divisions # 0 (range() of a negative number is empty)
group_counts_by_time(cot, n_divisions) == GroupsFrom(cot, n_divisions, 0, 0, 0)

(******************************* samples ***********************************)
\* A sample is a Counter whose values are the quotients num[s] / den: an
\* integer snapshot has den = 1, a mean over lc points has den = lc.
Snapshot(cnt) == [num |-> cnt, den |-> 1]

\* the None that avg_counts returns for an empty window
NoneSample == [num |-> EmptyCounter, den |-> 0]

IsNone(c) == c.den = 0

\* Counter.__add__: keeps only the entries whose sum is positive
AddCounter(a, b) == [s \in JobStatus |-> IF a[s] + b[s] > 0 THEN a[s] + b[s] ELSE 0]

RECURSIVE SumCounters(_)
\* sum(counts, collections.Counter())
SumCounters(points) ==
    IF points = <<>> THEN EmptyCounter
    ELSE AddCounter(SumCounters(SubSeq(points, 1, Len(points) - 1)),
                    Last(points).counts)

\* an avg_counts that takes the last point of the window for its mean
avg_counts_LastPoint(group) ==
    LET lc == Len(group)
    IN  IF lc = 0 THEN NoneSample ELSE [num |-> Last(group).counts, den |-> 1]

avg_counts(group) ==
    LET lc == Len(group)
    IN  IF lc = 0 THEN NoneSample ELSE [num |-> SumCounters(group), den |-> lc]

\* total_counts(counter) of a sample, as the quotient num / den
total_counts(c) == [num |-> IntTotal(c.num), den |-> c.den]

QLess(a, b) == a.num * b.den < b.num * a.den

\* max(total_counts(c) for c in counts if c is not None); Python's max keeps
\* the first of equal values
MaxTotalOf(cs) ==
    LET idx == {i \in 1 .. Len(cs) : ~IsNone(cs[i])}
        best == SetMin({i \in idx : \A j \in idx :
                            ~QLess(total_counts(cs[i]), total_counts(cs[j]))})
    IN  total_counts(cs[best])

(***************************** row partitioner *****************************)
\* raw_split entry (counts.get(status, 0) / max_jobs) * height as P / Q, Q > 0
RawP(c, max_jobs, height, status) == c.num[status] * max_jobs.den * height

RawQ(c, max_jobs) == c.den * max_jobs.num

Floor(P, Q) == P \div Q

Ceil(P, Q) == IF P % Q = 0 THEN P \div Q ELSE (P \div Q) + 1

\* the branch "floor(entry) == 0" that forces a small entry to one row
Forced(P, Q) == P # 0 /\ 2 * (P % Q) < Q /\ Floor(P, Q) = 0

\* a loop body without the branch that forces a small entry to one row
SplitEntry_NotForced(P, Q) ==
    IF P = 0 THEN 0
    ELSE IF 2 * (P % Q) >= Q THEN Ceil(P, Q)
    ELSE Floor(P, Q)

\* int_split[idx] as set by the loop body
SplitEntry(P, Q) ==
    IF P = 0 THEN 0
    ELSE IF 2 * (P % Q) >= Q THEN Ceil(P, Q)
    ELSE IF Floor(P, Q) = 0 THEN 1
    ELSE Floor(P, Q)

RECURSIVE SplitFrom(_, _, _, _)
\* the entries of int_split from status on, in enumeration order
SplitFrom(c, max_jobs, height, status) ==
    IF status > SUSPENDED THEN <<>>
    ELSE <<SplitEntry(RawP(c, max_jobs, height, status), RawQ(c, max_jobs))>>
         \o SplitFrom(c, max_jobs, height, status + 1)

\* int_split after the loop, indexed by status
IntSplit(c, max_jobs, height) ==
    LET l == SplitFrom(c, max_jobs, height, UNKNOWN)
    IN  [s \in JobStatus |-> l[s + 1]]

\* a loop that forces small entries to one row without counting them
CarryOf_NotCounted(c, max_jobs, height) == 0

CarryOf(c, max_jobs, height) ==
    Cardinality({s \in JobStatus :
                   Forced(RawP(c, max_jobs, height, s), RawQ(c, max_jobs))})

\* int_split.index(max(int_split)): first status holding the largest entry
MaxIndex(int_split) ==
    LET m == CHOOSE v \in {int_split[s] : s \in JobStatus} :
                 \A u \in JobStatus : int_split[u] <= v
    IN  SetMin({s \in JobStatus : int_split[s] = m})

SubtractCarry(int_split, carry) ==
    [int_split EXCEPT ![MaxIndex(int_split)] = @ - carry]

\* calculate_column_partition(counts, max_jobs, height), max_jobs # 0
calculate_column_partition(c, max_jobs, height) ==
    SubtractCarry(IntSplit(c, max_jobs, height), CarryOf(c, max_jobs, height))

(************************** strings as char lists **************************)
RECURSIVE Repeat(_, _)
\* ch * n: the empty string when n <= 0
Repeat(ch, n) == IF n <= 0 THEN <<>> ELSE <<ch>> \o Repeat(ch, n - 1)

Max2(a, b) == IF a >= b THEN a ELSE b

\* str.ljust / str.rjust / str.center with the default fill " "
ljust(s, n) == s \o Repeat(" ", n - Len(s))

rjust(s, n) == Repeat(" ", n - Len(s)) \o s

center(s, n) ==
    LET pad == n - Len(s)
        left == (pad \div 2) + (IF pad % 2 = 1 /\ n % 2 = 1 THEN 1 ELSE 0)
    IN  IF pad <= 0 THEN s ELSE Repeat(" ", left) \o s \o Repeat(" ", pad - left)

Digit(d) == <<"0", "1", "2", "3", "4", "5", "6", "7", "8", "9">>[d + 1]

RECURSIVE Str(_)
\* str(n) of a non-negative int
Str(n) == IF n < 10 THEN <<Digit(n)>> ELSE Str(n \div 10) \o <<Digit(n % 10)>>

TwoDigits(n) == <<Digit((n \div 10) % 10), Digit(n % 10)>>

\* datetime.fromtimestamp(t).strftime("%y-%m-%d %H:%M:%S") for 0 <= t < 3600
\* in a zone at UTC: "70-01-01 00:MM:SS"
DateStr(t) ==
    <<"7", "0", "-", "0", "1", "-", "0", "1", " ", "0", "0", ":">>
    \o TwoDigits(t \div 60) \o <<":">> \o TwoDigits(t % 60)

TimeLabel == <<"T", "i", "m", "e">>

JobsLabel == <<"#", " ", "J", "o", "b", "s">>

(****************************** merge_strings ******************************)
RECURSIVE SeqMaxLen(_)
SeqMaxLen(strings) ==
    IF strings = <<>> THEN 0 ELSE Max2(Len(Head(strings)), SeqMaxLen(Tail(strings)))

\* a merge in which a later string overwrites an earlier one
MergeChar_LastWins(old, char) == IF char # " " THEN char ELSE old

\* the test "out[idx] == ' ' and char != ' '" and the assignment it guards
MergeChar(old, char) == IF old = " " /\ char # " " THEN char ELSE old

\* the inner loop: one input string laid over out
MergeOne(out, string) ==
    [idx \in 1 .. Len(out) |->
        IF idx <= Len(string) THEN MergeChar(out[idx], string[idx]) ELSE out[idx]]

RECURSIVE MergeAll(_, _)
MergeAll(out, strings) ==
    IF strings = <<>> THEN out
    ELSE MergeAll(MergeOne(out, Head(strings)), Tail(strings))

\* merge_strings(*strings) for at least one string
merge_strings(strings) == MergeAll(Repeat(" ", SeqMaxLen(strings)), strings)

\* the three strings merged into the axis row
AxisStrings(first_time, last_time, width) ==
    << ljust(DateStr(first_time), width + 1),
       rjust(DateStr(last_time), width + 1),
       center(TimeLabel, width + 1) >>

(******************************** histogram ********************************)
RECURSIVE ColumnFrom(_, _)
\* "".join(symbol * bar_lens[status] for status, symbol in STATUS_TO_SYMBOL.items())
ColumnFrom(lens, status) ==
    IF status > SUSPENDED THEN <<>>
    ELSE Repeat(STATUS_TO_SYMBOL[status], lens[status]) \o ColumnFrom(lens, status + 1)

ColumnString(lens) == ColumnFrom(lens, UNKNOWN)

RECURSIVE BarLensOf(_, _, _)
\* the values bar_lens takes in the loop "for count in counts", one per
\* column that is not None
BarLensOf(cs, max_jobs, height) ==
    IF cs = <<>> THEN <<>>
    ELSE IF IsNone(Head(cs)) THEN BarLensOf(Tail(cs), max_jobs, height)
    ELSE <<calculate_column_partition(Head(cs), max_jobs, height)>>
         \o BarLensOf(Tail(cs), max_jobs, height)

RECURSIVE ColumnsOf(_, _, _)
\* the loop "for count in counts": the columns appended after those in acc,
\* lens holding the bar_lens of the columns still to come
ColumnsOf(cs, lens, acc) ==
    IF cs = <<>> THEN acc
    ELSE IF IsNone(Head(cs))
         THEN ColumnsOf(Tail(cs), lens, Append(acc, Last(acc)))
         ELSE ColumnsOf(Tail(cs), Tail(lens), Append(acc, ColumnString(Head(lens))))

\* reversed(zip_longest(*columns, fillvalue=" ")): row 1 is the visual top
RowsOf(cols) ==
    LET nrows == SeqMaxLen(cols)
    IN  [r \in 1 .. nrows |->
            [c \in 1 .. Len(cols) |->
                IF nrows - r + 1 <= Len(cols[c]) THEN cols[c][nrows - r + 1] ELSE " "]]

\* the box-drawing and block characters of the output, by name
BoxVertical == "BOX_VERTICAL"

BoxUpRight == "BOX_UP_RIGHT"

BoxHorizontal == "BOX_HORIZONTAL"

FullBlock == "FULL_BLOCK"

\* one piece of output text: a plain character, or a click.style run of n blocks
Plain(ch) == [fg |-> None, ch |-> ch, n |-> 1]

Styled(symbol, n) == [fg |-> SYMBOL_TO_COLOR[symbol], ch |-> FullBlock, n |-> n]

RECURSIVE RunLen(_)
\* length of the leading run of equal symbols (itertools.groupby)
RunLen(row) ==
    IF Len(row) <= 1 THEN Len(row)
    ELSE IF row[2] = row[1] THEN 1 + RunLen(Tail(row)) ELSE 1

RECURSIVE StyleRow(_)
StyleRow(row) ==
    IF row = <<>> THEN <<>>
    ELSE LET k == RunLen(row)
         IN  <<Styled(row[1], k)>> \o StyleRow(SubSeq(row, k + 1, Len(row)))

StyleRows(rows) == [r \in 1 .. Len(rows) |-> StyleRow(rows[r])]

PlainText(s) == [i \in 1 .. Len(s) |-> Plain(s[i])]

RECURSIVE AvgAll(_)
\* [avg_counts(group) for group in groups]
AvgAll(grps) ==
    IF grps = <<>> THEN <<>> ELSE <<avg_counts(Head(grps))>> \o AvgAll(Tail(grps))

\* an override that leaves the last window's sample as it is
Override_LastKept(cs, grps, last_counts) ==
    <<Snapshot(Last(grps[1]).counts)>> \o SubSeq(cs, 2, Len(cs))

\* counts[0] = groups[0][-1][1]; counts[-1] = last_counts
Override(cs, grps, last_counts) ==
    LET c0 == <<Snapshot(Last(grps[1]).counts)>> \o SubSeq(cs, 2, Len(cs))
    IN  SubSeq(c0, 1, Len(c0) - 1) \o <<Snapshot(last_counts)>>

(***************************** make_state_graph ****************************)
RECURSIVE MaxJobsOfLog(_)
\* max(total_counts(c) for _, c in counts_over_time)
MaxJobsOfLog(cot) ==
    IF Len(cot) = 1 THEN IntTotal(cot[1].counts)
    ELSE Max2(IntTotal(cot[1].counts), MaxJobsOfLog(Tail(cot)))

\* the left margin put before row idx (0-based) of nrows rows
MarginOf(idx, nrows, max_jobs, extra_len) ==
    IF idx = 0 THEN rjust(Str(max_jobs), extra_len)
    ELSE IF idx = nrows - 2 THEN rjust(<<"0">>, extra_len)
    ELSE IF idx = nrows \div 2 THEN rjust(JobsLabel, extra_len)
    ELSE Repeat(" ", extra_len)

\* lines 73-111: borders, axis row and left margin around histogram's rows
Assemble(g, cot, w) ==
    LET bordered == [r \in 1 .. Len(g) |-> <<Plain(BoxVertical)>> \o g[r]]
        bottom == PlainText(<<BoxUpRight>> \o Repeat(BoxHorizontal, w))
        axis == PlainText(merge_strings(
                    AxisStrings(cot[1].timestamp, Last(cot).timestamp, w)))
        rows == bordered \o <<bottom, axis>>
        max_jobs == MaxJobsOfLog(cot)
        extra_len == Max2(Len(Str(max_jobs)), Len(JobsLabel))
    IN  [idx \in 1 .. Len(rows) |->
            PlainText(MarginOf(idx - 1, Len(rows), max_jobs, extra_len)) \o rows[idx]]

(******************* make_state_graph as a state machine *******************)
EventsOf(types) ==
    {[timestamp |-> t, cluster |-> k[1], proc |-> k[2], type |-> ty] :
        t \in Timestamps, k \in EventKeys, ty \in types}

TerminalSizes == [columns : 9 .. MaxWidth + 10, lines : 10 .. MaxHeight + 10]

\* width = term.columns - 10; height = term.lines - 10
width == term.columns - 10

height == term.lines - 10

\* the state before make_state_graph has touched anything but its own locals
Blank ==
    /\ job_states = [k \in EventKeys |-> NoStatus]
    /\ job_state_counts = EmptyCounter
    /\ counts_over_time = <<>>
    /\ n_ingested = 0
    /\ term = <<>>
    /\ sampler_entered = FALSE
    /\ groups = <<>>
    /\ counts = <<>>
    /\ bar_lens = <<>>
    /\ columns = <<>>
    /\ graph = <<>>
    /\ error = None

Init ==
    /\ pc = "events"
    /\ job_states = [k \in EventKeys |-> NoStatus]
    /\ job_state_counts = EmptyCounter
    /\ counts_over_time = <<>>
    /\ n_ingested = 0
    /\ term = <<>>
    /\ sampler_entered = FALSE
    /\ groups = <<>>
    /\ counts = <<>>
    /\ bar_lens = <<>>
    /\ columns = <<>>
    /\ graph = <<>>
    /\ error = None
    /\ fn_in = <<>>
    /\ fn_out = <<>>

\* lines 51-64: the loop body for one event of a time-ordered log, for logs
\* of at most max_events events
IngestUpTo(event, max_events) ==
    /\ pc = "events"
    /\ n_ingested < max_events
    /\ counts_over_time # <<>> => Last(counts_over_time).timestamp <= event.timestamp
    /\ job_states' = StatesAfter(job_states, event)
    /\ job_state_counts' = CountsAfter(job_states, job_state_counts, event)
    /\ counts_over_time' = AppendPoint(counts_over_time, event.timestamp,
                                       job_state_counts')
    /\ n_ingested' = n_ingested + 1
    /\ UNCHANGED <<pc, term, sampler_entered, groups, counts, bar_lens, columns,
                   graph, error, fn_in, fn_out>>

Ingest(event) == IngestUpTo(event, MaxEvents)

\* a histogram that leaves the first access to the log to the sampler
histogram_IndexInSampler(cot, w, h) ==
    LET grps == group_counts_by_time(cot, w)
        cs == Override(AvgAll(grps), grps, Last(cot).counts)
        max_jobs == MaxTotalOf(cs)
        lens == BarLensOf(cs, max_jobs, h)
        cols == ColumnsOf(cs, lens, <<>>)
        blank == [error |-> None, entered |-> FALSE, groups |-> <<>>,
                  counts |-> <<>>, bar_lens |-> <<>>, columns |-> <<>>, rows |-> <<>>]
    IN  IF cot = <<>> THEN [blank EXCEPT !.error = "IndexError", !.entered = TRUE]
        ELSE IF w = 0
        THEN [blank EXCEPT !.error = "ZeroDivisionError", !.entered = TRUE]
        ELSE IF grps = <<>> \/ grps[1] = <<>>
        THEN [blank EXCEPT !.error = "IndexError", !.entered = TRUE, !.groups = grps]
        ELSE IF max_jobs.num = 0
        THEN [blank EXCEPT !.error = "ZeroDivisionError", !.entered = TRUE,
                           !.groups = grps, !.counts = cs]
        ELSE [error |-> None, entered |-> TRUE, groups |-> grps, counts |-> cs,
              bar_lens |-> lens, columns |-> cols,
              rows |-> StyleRows(RowsOf(cols))]

\* The outcome of histogram(counts_over_time, w, h), lines 127-161: the
\* exception raised (None when it returns) and the values of its locals.
\* line 128 indexes the log; line 131 runs the sampler, whose dt divides by
\* n_divisions; line 133 indexes groups and groups[0]; line 165 divides by
\* max_jobs.
histogram(cot, w, h) ==
    LET grps == group_counts_by_time(cot, w)
        cs == Override(AvgAll(grps), grps, Last(cot).counts)
        max_jobs == MaxTotalOf(cs)
        lens == BarLensOf(cs, max_jobs, h)
        cols == ColumnsOf(cs, lens, <<>>)
        blank == [error |-> None, entered |-> FALSE, groups |-> <<>>,
                  counts |-> <<>>, bar_lens |-> <<>>, columns |-> <<>>, rows |-> <<>>]
    IN  IF cot = <<>> THEN [blank EXCEPT !.error = "IndexError"]
        ELSE IF w = 0
        THEN [blank EXCEPT !.error = "ZeroDivisionError", !.entered = TRUE]
        ELSE IF grps = <<>> \/ grps[1] = <<>>
        THEN [blank EXCEPT !.error = "IndexError", !.entered = TRUE, !.groups = grps]
        ELSE IF max_jobs.num = 0
        THEN [blank EXCEPT !.error = "ZeroDivisionError", !.entered = TRUE,
                           !.groups = grps, !.counts = cs]
        ELSE [error |-> None, entered |-> TRUE, groups |-> grps, counts |-> cs,
              bar_lens |-> lens, columns |-> cols,
              rows |-> StyleRows(RowsOf(cols))]

\* lines 66-71: the events are exhausted, the terminal size is read and
\* histogram is called
HistogramOn(sizes) ==
    /\ pc = "events"
    /\ \E size \in sizes :
        \E r \in {histogram(counts_over_time, size.columns - 10, size.lines - 10)} :
            /\ term' = size
            /\ sampler_entered' = r.entered
            /\ groups' = r.groups
            /\ counts' = r.counts
            /\ bar_lens' = r.bar_lens
            /\ columns' = r.columns
            /\ graph' = r.rows
            /\ error' = r.error
            /\ pc' = IF r.error = None THEN "assemble" ELSE "failed"
    /\ UNCHANGED <<job_states, job_state_counts, counts_over_time, n_ingested,
                   fn_in, fn_out>>

Histogram == HistogramOn(TerminalSizes)

\* lines 73-111: borders, axis and margin; the text is returned
AssembleGraph ==
    /\ pc = "assemble"
    /\ graph' = Assemble(graph, counts_over_time, width)
    /\ pc' = "done"
    /\ UNCHANGED <<job_states, job_state_counts, counts_over_time, n_ingested,
                   term, sampler_entered, groups, counts, bar_lens, columns,
                   error, fn_in, fn_out>>

Next ==
    \/ \E event \in EventsOf(RenderedTypes) : Ingest(event)
    \/ Histogram
    \/ AssembleGraph

Spec == Init /\ [][Next]_vars

\* the tracker loop alone, over every event kind
NextTracker == \E event \in EventsOf(EventTypes) : Ingest(event)

SpecTracker == Init /\ [][NextTracker]_vars

\* make_state_graph on longer logs and wider canvases, where interior
\* windows exist: logs of up to MaxPoints SUBMIT and EXECUTE events, canvases
\* of 1 .. MaxWindows columns and two rows (a terminal of 12 lines)
WideTypes == {"SUBMIT", "EXECUTE"}

WideSizes == [columns : 11 .. MaxWindows + 10, lines : {12}]

IngestWide(event) == IngestUpTo(event, MaxPoints)

HistogramWide == HistogramOn(WideSizes)

NextWide ==
    \/ \E event \in EventsOf(WideTypes) : IngestWide(event)
    \/ HistogramWide
    \/ AssembleGraph

SpecWide == Init /\ [][NextWide]_vars

(************ calculate_column_partition as a function of its inputs *******)
PartitionInputs ==
    [counts : [JobStatus -> 0 .. MaxCount], max_jobs : 1 .. MaxTotal,
     height : 1 .. MaxRows]

InitPartition ==
    /\ pc = "partition"
    /\ fn_in \in PartitionInputs
    /\ fn_out = <<>>
    /\ Blank

ApplyPartition ==
    /\ pc = "partition"
    /\ fn_out' = calculate_column_partition(Snapshot(fn_in.counts),
                                            [num |-> fn_in.max_jobs, den |-> 1],
                                            fn_in.height)
    /\ pc' = "partitioned"
    /\ UNCHANGED <<job_states, job_state_counts, counts_over_time, n_ingested,
                   term, sampler_entered, groups, counts, bar_lens, columns,
                   graph, error, fn_in>>

NextPartition == ApplyPartition

SpecPartition == InitPartition /\ [][NextPartition]_vars

(********************* merge_strings as a function of its inputs ***********)
RECURSIVE StringsUpTo(_, _)
\* the strings over alphabet of length 0 .. n
StringsUpTo(alphabet, n) ==
    IF n = 0 THEN {<<>>}
    ELSE LET shorter == StringsUpTo(alphabet, n - 1)
         IN  shorter \cup {Append(x, ch) : x \in shorter, ch \in alphabet}

MergeAlphabet == {" ", "A", "B"}

MergeInputs ==
    LET str == StringsUpTo(MergeAlphabet, MaxLen)
    IN  {[kind |-> "strings", width |-> 0, strings |-> ss] :
            ss \in {<<a>> : a \in str} \cup (str \X str) \cup (str \X str \X str)}
        \cup {[kind |-> "strings", width |-> 0,
               strings |-> << <<"A", "B", " ", " ">>, <<" ", " ", "C", "D">>,
                              <<" ", " ", " ", " ">> >>]}
        \cup {[kind |-> "axis", width |-> w, strings |-> AxisStrings(tt[1], tt[2], w)] :
                w \in 1 .. MaxAxis,
                tt \in {x \in Timestamps \X Timestamps : x[1] <= x[2]}}

InitMerge ==
    /\ pc = "merge"
    /\ fn_in \in MergeInputs
    /\ fn_out = <<>>
    /\ Blank

ApplyMerge ==
    /\ pc = "merge"
    /\ fn_out' = merge_strings(fn_in.strings)
    /\ pc' = "merged"
    /\ UNCHANGED <<job_states, job_state_counts, counts_over_time, n_ingested,
                   term, sampler_entered, groups, counts, bar_lens, columns,
                   graph, error, fn_in>>

NextMerge == ApplyMerge

SpecMerge == InitMerge /\ [][NextMerge]_vars

(***************************************************************************)
(*                     properties of the row partitioner                   *)
(***************************************************************************)
\* count[s] * H / maxTotal rounded to the nearest integer, halves up
RoundHalfUp(count, max_total, h) == (2 * count * h + max_total) \div (2 * max_total)

RowsTotal == IntTotal(fn_out)

RoundedTotal ==
    IntTotal([s \in JobStatus |->
                RoundHalfUp(fn_in.counts[s], fn_in.max_jobs, fn_in.height)])

\* 0 < raw < 0.5 for status s
SmallRaw(s) ==
    /\ fn_in.counts[s] > 0
    /\ 2 * fn_in.counts[s] * fn_in.height < fn_in.max_jobs

ExactColumn ==
    /\ IntTotal(fn_in.counts) = fn_in.max_jobs
    /\ \A s \in JobStatus : (fn_in.counts[s] * fn_in.height) % fn_in.max_jobs = 0

StarvedStatuses == {s \in JobStatus : fn_in.counts[s] > 0 /\ fn_out[s] < 1}

\* C2 as claimed: every status with count > 0 has rows >= 1 in the result.
C2_EveryCountVisible ==
    pc = "partitioned" => StarvedStatuses = {}

\* C2 amended: every status with count > 0 has rows >= 1 in the result,
\* except at most one status, the one the carry is subtracted from, and
\* only when some status had 0 < raw < 0.5.
C2_AllButCarryAbsorberVisible ==
    pc = "partitioned"
        => /\ Cardinality(StarvedStatuses) <= 1
           /\ StarvedStatuses # {} => \E s \in JobStatus : SmallRaw(s)

\* two small statuses, both forced to one row: the first pays the carry and
\* loses its row, the second keeps it
C2_Witness ==
    /\ pc = "partitioned"
    /\ Cardinality({s \in JobStatus : SmallRaw(s)}) = 2
    /\ Cardinality(StarvedStatuses) = 1
    /\ \E s \in JobStatus : SmallRaw(s) /\ fn_out[s] = 1

\* C3 as claimed: for a sample whose total is between 0 and maxTotal, every
\* row height returned is a non-negative integer.
C3_RowsNonNegative ==
    (pc = "partitioned" /\ IntTotal(fn_in.counts) <= fn_in.max_jobs)
        => \A s \in JobStatus : fn_out[s] >= 0

(***************************************************************************)
(*                      properties of the state tracker                    *)
(***************************************************************************)
\* C4: after any sequence of ingested events no entry of the running
\* StatusCounts is negative, and no event lowers the total across all
\* statuses.
C4_CountsNonNegativeTotalMonotone ==
    /\ [](\A s \in JobStatus : job_state_counts[s] >= 0)
    /\ [][IntTotal(job_state_counts') >= IntTotal(job_state_counts)]_vars

\* a job was added, then moved to another status, then sent again to the
\* status it already had
C4_Witness ==
    /\ n_ingested = 3
    /\ IntTotal(counts_over_time[1].counts) = 1
    /\ counts_over_time[2].counts # counts_over_time[1].counts
    /\ IntTotal(counts_over_time[2].counts) = 1
    /\ counts_over_time[3].counts = counts_over_time[2].counts
    /\ Cardinality({k \in EventKeys : job_states[k] # NoStatus}) = 1

\* the snapshot the log held before the last append
PreviousSnapshot(log) == IF log = <<>> THEN EmptyCounter ELSE Last(log).counts

\* C5: the log holds exactly one point per ingested event; an event whose
\* kind is absent from the transition table leaves the key-to-status map and
\* the StatusCounts unchanged, and the point appended for it carries its
\* timestamp and the snapshot of the previous point (the empty counts when
\* it is the first event).
C5_OnePointPerEvent ==
    /\ [](Len(counts_over_time) = n_ingested)
    /\ [][\A event \in EventsOf(EventTypes) :
            (Ingest(event) /\ NewStatus(event.type) = NoStatus)
                => /\ job_states' = job_states
                   /\ job_state_counts' = job_state_counts
                   /\ Len(counts_over_time') = Len(counts_over_time) + 1
                   /\ Last(counts_over_time').timestamp = event.timestamp
                   /\ Last(counts_over_time').counts
                        = PreviousSnapshot(counts_over_time)]_vars

\* Two events were ingested and no job is counted: a mapped event counts its
\* job for good, so both events had a kind absent from the table (the first
\* with no previous point, the second with one).
C5_Witness ==
    /\ n_ingested = 2
    /\ Len(counts_over_time) = 2
    /\ IntTotal(job_state_counts) = 0
    /\ \A k \in EventKeys : job_states[k] = NoStatus
    /\ counts_over_time[1].timestamp < counts_over_time[2].timestamp
    /\ counts_over_time[2].counts = counts_over_time[1].counts

(***************************************************************************)
(*                 properties of the sampler and the renderer              *)
(***************************************************************************)
RECURSIVE Flatten(_)
Flatten(ss) == IF ss = <<>> THEN <<>> ELSE Head(ss) \o Flatten(Tail(ss))

Finished == pc \in {"done", "failed"}

\* C6 as claimed: for a non-empty time-ordered timeline and W >= 1 the
\* sampler yields exactly W windows in order and every timeline point, the
\* final one included, belongs to exactly one window: the windows, laid end
\* to end, are the timeline.
C6_EveryPointInOneWindow ==
    (Finished /\ sampler_entered /\ width >= 1)
        => /\ Len(groups) = width
           /\ Flatten(groups) = counts_over_time

\* C7 as claimed: the log of the single event SUBMIT for key (1,0) at t=0,
\* rendered with W = 1 and H = 1, succeeds and gives exactly one column that
\* holds only the Idle symbol.
C7_SingleEventRenders ==
    ( /\ Finished
      /\ n_ingested = 1
      /\ counts_over_time[1].timestamp = 0
      /\ job_states[<<1, 0>>] = Some(IDLE)
      /\ width = 1
      /\ height = 1 )
        => /\ pc = "done"
           /\ columns = << <<STATUS_TO_SYMBOL[IDLE]>> >>

\* C8 as claimed: an empty event sequence ends rendering with an
\* EmptyInputError raised before the sampler is entered, and no output.
C8_EmptyInputError ==
    (pc # "events" /\ counts_over_time = <<>>)
        => /\ pc = "failed"
           /\ error = "EmptyInputError"
           /\ ~sampler_entered
           /\ graph = <<>>

\* C8 amended: an empty event sequence ends rendering with an IndexError
\* (histogram indexes the empty log) raised before the sampler is entered,
\* and no output.
C8_EmptyInputIndexError ==
    (pc # "events" /\ counts_over_time = <<>>)
        => /\ pc = "failed"
           /\ error = "IndexError"
           /\ ~sampler_entered
           /\ graph = <<>>

\* rendering was attempted on the empty log
C8_Witness ==
    /\ pc = "failed"
    /\ n_ingested = 0
    /\ counts_over_time = <<>>
    /\ term \in TerminalSizes

\* C9 as claimed: for a non-empty event sequence and a canvas width or
\* height <= 0, rendering never returns a rendered string (it ends in an
\* InvalidCanvasSizeError).
C9_NoGraphForInvalidCanvas ==
    (pc = "done" /\ counts_over_time # <<>>)
        => (width > 0 /\ height > 0)

(***************************************************************************)
(*                    properties of histogram's samples                    *)
(***************************************************************************)
\* the sample c has, for every status, the value of the integer Counter cnt
IsSnapshotOf(c, cnt) ==
    /\ c.den > 0
    /\ \A s \in JobStatus : c.num[s] = cnt[s] * c.den

\* the sum of the counts of status s over the points of a window
StatusSum(points, s) ==
    LET RECURSIVE Upto(_)
        Upto(n) == IF n = 0 THEN 0 ELSE points[n].counts[s] + Upto(n - 1)
    IN  Upto(Len(points))

\* the sample c is, for every status, the arithmetic mean over the points
IsMeanOf(c, points) ==
    /\ c.den > 0
    /\ \A s \in JobStatus : c.num[s] * Len(points) = StatusSum(points, s) * c.den

\* histogram has been called on the log
Sampled == pc \in {"assemble", "done", "failed"}

GridProduced == pc \in {"assemble", "done"}

\* C12 as claimed: for W >= 1 and H >= 1 the grid histogram produces has
\* exactly W columns and exactly H rows of W cells (so that no column string
\* is longer than H, shorter ones being padded with blanks at the top), and
\* the column of an empty window is a copy of the column before it.
C12_GridIsWByH ==
    (GridProduced /\ width >= 1 /\ height >= 1)
        => /\ Len(columns) = width
           /\ Len(RowsOf(columns)) = height
           /\ \A r \in 1 .. Len(RowsOf(columns)) : Len(RowsOf(columns)[r]) = width
           /\ \A i \in 2 .. width : IsNone(counts[i]) => columns[i] = columns[i - 1]

\* the text printed before the left border in the top row of the output
TopMargin ==
    LET border == {k \in 1 .. Len(graph[1]) : graph[1][k] = Plain(BoxVertical)}
    IN  SubSeq(graph[1], 1, SetMin(border) - 1)

\* C13: whenever histogram has its samples, the max_jobs it scales the
\* columns with (the largest total of a sample) has the value of the largest
\* total of a raw timeline point; and when make_state_graph returns, the
\* count printed right-justified at the top of the left margin is exactly
\* that scaling maximum, an integer.
C13_PrintedMaxIsScalingMax ==
    /\ (Sampled /\ counts # <<>>)
          => LET max_jobs == MaxTotalOf(counts)
             IN  /\ max_jobs.den > 0
                 /\ max_jobs.num = MaxJobsOfLog(counts_over_time) * max_jobs.den
    /\ pc = "done"
          => LET max_jobs == MaxTotalOf(counts)
             IN  /\ max_jobs.num % max_jobs.den = 0
                 /\ TopMargin = PlainText(rjust(Str(max_jobs.num \div max_jobs.den),
                                                Len(JobsLabel)))

\* a graph of three columns was returned whose interior sample is a mean of
\* two points with a total that is no integer and below the printed
\* maximum, while an earlier raw point already has the total of the first
\* column
C13_Witness ==
    /\ pc = "done"
    /\ width = 3
    /\ counts[2].den = 2
    /\ IntTotal(counts[2].num) % 2 = 1
    /\ QLess(total_counts(counts[2]), MaxTotalOf(counts))
    /\ QLess(total_counts(counts[1]), total_counts(counts[2]))
    /\ MaxJobsOfLog(counts_over_time) = 2

(***************************************************************************)
(*                        properties of merge_strings                      *)
(***************************************************************************)
\* the inputs that carry a non-space character at position idx
NonSpaceAt(strings, idx) ==
    {k \in 1 .. Len(strings) : idx <= Len(strings[k]) /\ strings[k][idx] # " "}

\* the first non-space character at idx in argument order, else a space
FirstNonSpace(strings, idx) ==
    IF NonSpaceAt(strings, idx) = {} THEN " "
    ELSE strings[SetMin(NonSpaceAt(strings, idx))][idx]

\* no two inputs carry different non-space characters at one position
NoConflict(strings) ==
    \A idx \in 1 .. SeqMaxLen(strings) :
        \A j, k \in NonSpaceAt(strings, idx) : strings[j][idx] = strings[k][idx]

MergedFirstNonSpace ==
    /\ Len(fn_out) = SeqMaxLen(fn_in.strings)
    /\ \A idx \in 1 .. Len(fn_out) : fn_out[idx] = FirstNonSpace(fn_in.strings, idx)

\* the narrowest canvas on which the two 17-character dates and the centred
\* "Time" do not meet
ClearAxisWidth == 2 * Len(DateStr(0)) + Len(TimeLabel) - 1

\* C10 as claimed: merge_strings puts at each position the first non-space
\* character among its inputs in argument order (a space when there is
\* none), and the three axis strings of make_state_graph never carry
\* different non-space characters at one position.
C10_MergeAndAxisNeverConflict ==
    pc = "merged"
        => /\ MergedFirstNonSpace
           /\ fn_in.kind = "axis" => NoConflict(fn_in.strings)

\* C10 amended: merge_strings puts at each position the first non-space
\* character among its inputs in argument order (a space when there is
\* none); the three axis strings of make_state_graph carry no different
\* non-space characters at one position when the canvas is at least 37
\* columns wide, and on a narrower canvas they overlap and the earlier
\* argument wins.
C10_MergeAndWideAxisNoConflict ==
    pc = "merged"
        => /\ MergedFirstNonSpace
           /\ (fn_in.kind = "axis" /\ fn_in.width >= ClearAxisWidth)
                => NoConflict(fn_in.strings)
           /\ (fn_in.kind = "axis" /\ fn_in.width < ClearAxisWidth)
                => ~NoConflict(fn_in.strings)

\* the axis of the narrowest canvas that keeps its three labels apart was
\* merged: the start date, "Time" and the end date follow each other
C10_Witness ==
    /\ pc = "merged"
    /\ fn_in.kind = "axis"
    /\ fn_in.width = ClearAxisWidth
    /\ fn_out = SubSeq(fn_in.strings[1], 1, Len(DateStr(0))) \o TimeLabel
                 \o SubSeq(fn_in.strings[2], Len(fn_out) - Len(DateStr(0)) + 1,
                           Len(fn_out))

====
